---- MODULE Spec2Model ----
(***************************************************************************)
(* A model of the gomme parser-combinator library.                         *)
(*                                                                         *)
(* A parser is a pure function from an input to a Result.  Parsers are     *)
(* represented by descriptors (kind, arguments, sub-parsers); Run applies  *)
(* a descriptor to an input the way the Go closure of that kind does.      *)
(* The state machine applies one parser to one input; the combinators      *)
(* that loop (Alternative, Sequence, Count, Many0, Many1, Many,            *)
(* DiscardAll, SeparatedList0, SeparatedList1) are run one iteration at a  *)
(* time.  The operator of an iteration receives the Result of the parser   *)
(* application that opens it (res, result, first, separatorResult) from    *)
(* its caller, the loop or the action, which applies the parser.           *)
(***************************************************************************)
EXTENDS Integers, Sequences, FiniteSets, TLC

\* Longest input the model applies a parser to.
MaxLen == 3

\* The input alphabet: a letter, a digit, the minus sign and the dot.
Units == {"a", "1", "-", "."}

Inputs == UNION {[1..n -> Units] : n \in 0..MaxLen}

\* Longest input given to the integer parsers, over an alphabet with the
\* digits that reach both sides of the 8-bit limits.
MaxDigits == 4

NumericUnits == {"0", "1", "9", "-"}

NumericInputs == UNION {[1..n -> NumericUnits] : n \in 0..MaxDigits}

\* rune(input[i]): the code point of a unit of the alphabet.
Ord(c) ==
    CASE c = "a" -> 97 [] c = "1" -> 49 [] c = "-" -> 45 [] c = "." -> 46
      [] c = "0" -> 48 [] c = "9" -> 57

\* Go slicing: input[k:] and input[:k].
From(input, k) == SubSeq(input, k + 1, Len(input))
Upto(input, k) == SubSeq(input, 1, k)

IsSuffix(r, s) == Len(r) <= Len(s) /\ From(s, Len(s) - Len(r)) = r

Min(S) == CHOOSE x \in S : \A y \in S : x <= y

(***************************************************************************)
(* Values.  A nil pointer is the empty sequence, a non-nil pointer the     *)
(* one-element sequence holding the pointee.  A payload carries its value  *)
(* as a sequence (a rune or an integer is a one-number sequence, a string  *)
(* the sequence of its units, a slice that of its elements' payloads) and  *)
(* says whether it is a nil slice or a nil interface.                      *)
(***************************************************************************)
Nil == <<>>

Value(v) == [nil |-> FALSE, val |-> v]

NilValue == [nil |-> TRUE, val |-> <<>>]

\* `var output O` for each output type O.
ZeroRune == Value(<<0>>)
ZeroString == Value(<<>>)
ZeroSlice == NilValue

(***************************************************************************)
(* Errors                                                                  *)
(***************************************************************************)
NewError(input, expected) ==
    <<[Input |-> input, Err |-> Nil, Expected |-> <<expected>>]>>

NewGenericError(input, expected) ==
    <<[Input |-> input, Err |-> Nil, Expected |-> <<expected>>]>>

NewFatalError(input, err, expected) ==
    <<[Input |-> input, Err |-> <<err>>, Expected |-> expected]>>

IsFatal(e) == e[1].Err # Nil

(***************************************************************************)
(* Results                                                                 *)
(***************************************************************************)
Success(output, r) == [Output |-> output, Err |-> Nil, Remaining |-> r]

\* zero is the zero value of the output type the call site instantiates.
Failure(err, input, zero) == [Output |-> zero, Err |-> err, Remaining |-> input]

(***************************************************************************)
(* Character classes                                                       *)
(***************************************************************************)
IsLowAlpha(c) == Ord(c) >= 97 /\ Ord(c) <= 122

IsUpAlpha(c) == Ord(c) >= 65 /\ Ord(c) <= 90

IsAlpha(c) == IsLowAlpha(c) \/ IsUpAlpha(c)

IsDigit(c) == Ord(c) >= 48 /\ Ord(c) <= 57

IsAlphanumeric(c) == IsAlpha(c) \/ IsDigit(c)

IsHexDigit(c) ==
    \/ IsDigit(c)
    \/ (Ord(c) >= 97 /\ Ord(c) <= 102)
    \/ (Ord(c) >= 65 /\ Ord(c) <= 70)

IsWhitespace(c) == Ord(c) \in {32, 9, 10, 13}

(***************************************************************************)
(* Primitive parsers                                                       *)
(***************************************************************************)
Char(character, input) ==
    IF Len(input) = 0 \/ input[1] # character
    THEN Failure(NewError(input, <<character>>), input, ZeroRune)
    ELSE Success(Value(<<Ord(input[1])>>), From(input, 1))

AnyChar(input) ==
    IF Len(input) = 0
    THEN Failure(NewError(input, <<"AnyChar">>), input, ZeroRune)
    ELSE Success(Value(<<Ord(input[1])>>), From(input, 1))

\* strings.HasPrefix(input, token)
HasPrefix(input, token) ==
    Len(input) >= Len(token) /\ Upto(input, Len(token)) = token

\* Token with the two slices of its Success exchanged.
TokenSwapped(token, input) ==
    IF ~HasPrefix(input, token)
    THEN Failure(NewError(input, <<"Token(">> \o token \o <<")">>), input, ZeroString)
    ELSE Success(Value(From(input, Len(token))), Upto(input, Len(token)))

\* Token refusing every empty input, the empty token included.
TokenRefusesEmpty(token, input) ==
    IF Len(input) = 0 \/ ~HasPrefix(input, token)
    THEN Failure(NewError(input, <<"Token(">> \o token \o <<")">>), input, ZeroString)
    ELSE Success(Value(Upto(input, Len(token))), From(input, Len(token)))

Token(token, input) ==
    IF ~HasPrefix(input, token)
    THEN Failure(NewError(input, <<"Token(">> \o token \o <<")">>), input, ZeroString)
    ELSE Success(Value(Upto(input, Len(token))), From(input, Len(token)))

\* The index at which a scan from position start stops: the first unit that
\* is not alphabetic, or the end of the input.
AlphaEnd(input, start) ==
    LET stops == {idx \in start..(Len(input) - 1) : ~IsAlpha(input[idx + 1])}
    IN  IF stops = {} THEN Len(input) ELSE Min(stops)

Alpha0(input) ==
    IF Len(input) = 0
    THEN Success(Value(input), input)
    ELSE LET idx == AlphaEnd(input, 0)
         IN  Success(Value(Upto(input, idx)), From(input, idx))

Alpha1(input) ==
    IF Len(input) = 0
    THEN Failure(NewError(input, <<"Alpha1">>), input, ZeroString)
    ELSE IF ~IsAlpha(input[1])
    THEN Failure(NewError(input, <<"Alpha1">>), input, ZeroString)
    ELSE LET idx == AlphaEnd(input, 1)
         IN  Success(Value(Upto(input, idx)), From(input, idx))

AlphanumericEnd(input, start) ==
    LET stops == {idx \in start..(Len(input) - 1) : ~IsAlphanumeric(input[idx + 1])}
    IN  IF stops = {} THEN Len(input) ELSE Min(stops)

Alphanumeric0(input) ==
    IF Len(input) = 0
    THEN Success(Value(input), input)
    ELSE LET idx == AlphanumericEnd(input, 0)
         IN  Success(Value(Upto(input, idx)), From(input, idx))

Alphanumeric1(input) ==
    IF Len(input) = 0
    THEN Failure(NewError(input, <<"Digit1">>), input, ZeroString)
    ELSE IF ~IsAlphanumeric(input[1])
    THEN Failure(NewError(input, <<"Digit1">>), input, ZeroString)
    ELSE LET idx == AlphanumericEnd(input, 1)
         IN  Success(Value(Upto(input, idx)), From(input, idx))

DigitEnd(input, start) ==
    LET stops == {idx \in start..(Len(input) - 1) : ~IsDigit(input[idx + 1])}
    IN  IF stops = {} THEN Len(input) ELSE Min(stops)

Digit0(input) ==
    IF Len(input) = 0
    THEN Success(Value(input), input)
    ELSE LET idx == DigitEnd(input, 0)
         IN  Success(Value(Upto(input, idx)), From(input, idx))

Digit1(input) ==
    IF Len(input) = 0
    THEN Failure(NewError(input, <<"Digit1">>), input, ZeroString)
    ELSE IF ~IsDigit(input[1])
    THEN Failure(NewError(input, <<"Digit1">>), input, ZeroString)
    ELSE LET idx == DigitEnd(input, 1)
         IN  Success(Value(Upto(input, idx)), From(input, idx))

HexDigitEnd(input, start) ==
    LET stops == {idx \in start..(Len(input) - 1) : ~IsHexDigit(input[idx + 1])}
    IN  IF stops = {} THEN Len(input) ELSE Min(stops)

HexDigit0(input) ==
    IF Len(input) = 0
    THEN Success(Value(input), input)
    ELSE LET idx == HexDigitEnd(input, 0)
         IN  Success(Value(Upto(input, idx)), From(input, idx))

HexDigit1(input) ==
    IF Len(input) = 0
    THEN Failure(NewError(input, <<"HexDigit1">>), input, ZeroString)
    ELSE IF ~IsHexDigit(input[1])
    THEN Failure(NewError(input, <<"HexDigit1">>), input, ZeroString)
    ELSE LET idx == HexDigitEnd(input, 1)
         IN  Success(Value(Upto(input, idx)), From(input, idx))

WhitespaceEnd(input, start) ==
    LET stops == {idx \in start..(Len(input) - 1) : ~IsWhitespace(input[idx + 1])}
    IN  IF stops = {} THEN Len(input) ELSE Min(stops)

Whitespace0(input) ==
    IF Len(input) = 0
    THEN Success(Value(input), input)
    ELSE LET idx == WhitespaceEnd(input, 0)
         IN  Success(Value(Upto(input, idx)), From(input, idx))

Whitespace1(input) ==
    IF Len(input) = 0
    THEN Failure(NewError(input, <<"WhiteSpace1">>), input, ZeroString)
    ELSE IF ~IsWhitespace(input[1])
    THEN Failure(NewError(input, <<"WhiteSpace1">>), input, ZeroString)
    ELSE LET idx == WhitespaceEnd(input, 1)
         IN  Success(Value(Upto(input, idx)), From(input, idx))

Take(count, input) ==
    IF Len(input) = 0 /\ count > 0
    THEN Failure(NewError(input, <<"TakeUntil">>), input, ZeroString)
    ELSE IF Len(input) < count
    THEN Failure(NewError(input, <<"Take">>), input, ZeroString)
    ELSE Success(Value(Upto(input, count)), From(input, count))

\* A parser written by a caller of the library: it matches the unit ok,
\* treats the unit bad as a committed-but-invalid input, which it reports
\* with a fatal error, and fails recoverably on anything else.
Strict(ok, bad, zero, input) ==
    IF Len(input) > 0 /\ input[1] = ok
    THEN Success(Value(<<Ord(input[1])>>), From(input, 1))
    ELSE IF Len(input) > 0 /\ input[1] = bad
    THEN Failure(NewFatalError(input, "cause", <<<<"Strict">>>>), input, zero)
    ELSE Failure(NewError(input, <<"Strict">>), input, zero)

\* bytes.go TakeWhileMN takes its predicate as a function value; the model
\* names the predicates the library itself passes.
Predicate(name, c) ==
    CASE name = "IsAlpha" -> IsAlpha(c)
      [] name = "IsDigit" -> IsDigit(c)
      [] name = "IsAlphanumeric" -> IsAlphanumeric(c)
      [] name = "IsHexDigit" -> IsHexDigit(c)
      [] name = "IsWhitespace" -> IsWhitespace(c)

TakeWhileMN(atLeast, atMost, predicate, input) ==
    IF Len(input) = 0
    THEN Failure(NewError(input, <<"TakeWhileMN">>), input, ZeroString)
    ELSE IF Len(input) < atLeast
    THEN Failure(NewError(input, <<"TakeWhileMN">>), input, ZeroString)
    ELSE LET stops == {idx \in 0..(Len(input) - 1) :
                          idx = atMost \/ ~Predicate(predicate, input[idx + 1])}
         IN  IF stops = {}
             THEN Success(Value(input), From(input, Len(input)))
             ELSE LET idx == Min(stops)
                  IN  IF idx = atMost
                      THEN Success(Value(Upto(input, idx)), From(input, idx))
                      ELSE IF idx < atLeast
                      THEN Failure(NewError(input, <<"TakeWhileMN">>), input, ZeroString)
                      ELSE Success(Value(Upto(input, idx)), From(input, idx))

(***************************************************************************)
(* Parser descriptors.  kind names the Go function that built the parser,  *)
(* arg holds its rune and string arguments, num its numeric arguments,     *)
(* subs its parser arguments, and zero is the zero value of its output     *)
(* type.                                                                   *)
(***************************************************************************)
Parser(kind, arg, num, subs, zero) ==
    [kind |-> kind, arg |-> arg, num |-> num, subs |-> subs, zero |-> zero]

RECURSIVE Run(_, _)

\* One application of a sub-parser, as recorded in the history of a run.
Call(which, on, res) == [which |-> which, on |-> on, res |-> res]

(***************************************************************************)
(* combinators.go                                                          *)
(***************************************************************************)
\* The functions the model passes to Map.
MapFn(fn, output) ==
    CASE fn = "length" -> [out |-> Value(<<Len(output.val)>>), err |-> Nil]
      [] fn = "nonEmpty" ->
            IF Len(output.val) = 0
            THEN [out |-> ZeroString, err |-> <<"empty">>]
            ELSE [out |-> output, err |-> Nil]
      [] fn = "single" ->
            IF Len(output.val) # 1
            THEN [out |-> ZeroString, err |-> <<"single">>]
            ELSE [out |-> output, err |-> Nil]

\* Map reporting the rejection of fn where the sub-parser stopped.
MapKeepsProgress(p, fn, zero, input) ==
    LET res == Run(p, input)
    IN  IF res.Err # Nil
        THEN Failure(NewGenericError(input, <<"map">>), input, zero)
        ELSE LET mapped == MapFn(fn, res.Output)
             IN  IF mapped.err # Nil
                 THEN Failure(NewGenericError(res.Remaining, mapped.err),
                              res.Remaining, zero)
                 ELSE Success(mapped.out, res.Remaining)

Map(p, fn, zero, input) ==
    LET res == Run(p, input)
    IN  IF res.Err # Nil
        THEN Failure(NewGenericError(input, <<"map">>), input, zero)
        ELSE LET mapped == MapFn(fn, res.Output)
             IN  IF mapped.err # Nil
                 THEN Failure(NewGenericError(input, mapped.err), input, zero)
                 ELSE Success(mapped.out, res.Remaining)

\* Optional returning the input it was given instead of p's remaining input.
OptionalRewinds(p, input) ==
    LET called == Run(p, input)
    IN  Success(called.Output, input)

\* Optional slicing one more unit off the remaining input it hands back.
OptionalTrims(p, input) ==
    LET called == Run(p, input)
    IN  Success(called.Output, From(called.Remaining, 1))

Optional(p, input) ==
    LET called == Run(p, input)
        result == IF called.Err # Nil /\ ~IsFatal(called.Err)
                  THEN [called EXCEPT !.Err = Nil]
                  ELSE called
    IN  Success(result.Output, result.Remaining)

\* Peek handing back what its parser left instead of the original input.
PeekConsumes(p, input) ==
    LET result == Run(p, input)
    IN  IF result.Err # Nil
        THEN Failure(result.Err, input, p.zero)
        ELSE Success(result.Output, result.Remaining)

Peek(p, input) ==
    LET result == Run(p, input)
    IN  IF result.Err # Nil
        THEN Failure(result.Err, input, p.zero)
        ELSE Success(result.Output, input)

\* Recognize slicing the input at the length of what remains instead of at
\* the length of what was consumed.
RecognizeMiscounts(p, input) ==
    LET result == Run(p, input)
    IN  IF result.Err # Nil
        THEN Failure(result.Err, input, ZeroString)
        ELSE Success(Value(Upto(input, Len(result.Remaining))),
                     result.Remaining)

Recognize(p, input) ==
    LET result == Run(p, input)
    IN  IF result.Err # Nil
        THEN Failure(result.Err, input, ZeroString)
        ELSE Success(Value(Upto(input, Len(input) - Len(result.Remaining))),
                     result.Remaining)

Assign(value, zero, p, input) ==
    LET result == Run(p, input)
    IN  IF result.Err # Nil
        THEN Failure(result.Err, input, zero)
        ELSE Success(value, result.Remaining)

TakeUntil(p, input) ==
    IF Len(input) = 0
    THEN Failure(NewError(input, <<"TakeUntil">>), input, ZeroString)
    ELSE LET hits == {pos \in 0..(Len(input) - 1) : Run(p, From(input, pos)).Err = Nil}
         IN  IF hits = {}
             THEN Failure(NewError(input, <<"TakeUntil">>), input, ZeroString)
             ELSE Success(Value(Upto(input, Min(hits))), From(input, Min(hits)))

(***************************************************************************)
(* sequence.go                                                             *)
(***************************************************************************)
Pair(leftParser, rightParser, zero, input) ==
    LET leftResult == Run(leftParser, input)
    IN  IF leftResult.Err # Nil
        THEN Failure(NewGenericError(input, <<"pair">>), input, zero)
        ELSE LET rightResult == Run(rightParser, leftResult.Remaining)
             IN  IF rightResult.Err # Nil
                 THEN Failure(NewGenericError(input, <<"pair">>), input, zero)
                 ELSE Success(Value(<<leftResult.Output, rightResult.Output>>),
                              rightResult.Remaining)

SeparatedPair(leftParser, separator, rightParser, zero, input) ==
    LET leftResult == Run(leftParser, input)
    IN  IF leftResult.Err # Nil
        THEN Failure(NewGenericError(input, <<"separated pair">>), input, zero)
        ELSE LET sepResult == Run(separator, leftResult.Remaining)
             IN  IF sepResult.Err # Nil
                 THEN Failure(NewGenericError(input, <<"separated pair">>), input, zero)
                 ELSE LET rightResult == Run(rightParser, sepResult.Remaining)
                      IN  IF rightResult.Err # Nil
                          THEN Failure(NewGenericError(input, <<"pair">>), input, zero)
                          ELSE Success(Value(<<leftResult.Output, rightResult.Output>>),
                                       rightResult.Remaining)

\* Preceded reporting a failure of parser as an error of its own, anchored
\* at its input.
PrecededReanchors(prefix, parser, input) ==
    LET prefixResult == Run(prefix, input)
    IN  IF prefixResult.Err # Nil
        THEN Failure(prefixResult.Err, input, parser.zero)
        ELSE LET result == Run(parser, prefixResult.Remaining)
             IN  IF result.Err # Nil
                 THEN Failure(NewError(input, <<"Preceded">>), input, parser.zero)
                 ELSE Success(result.Output, result.Remaining)

Preceded(prefix, parser, input) ==
    LET prefixResult == Run(prefix, input)
    IN  IF prefixResult.Err # Nil
        THEN Failure(prefixResult.Err, input, parser.zero)
        ELSE LET result == Run(parser, prefixResult.Remaining)
             IN  IF result.Err # Nil
                 THEN Failure(result.Err, input, parser.zero)
                 ELSE Success(result.Output, result.Remaining)

\* Terminated failing, when the suffix is missing, with what parser left.
TerminatedStopsInPlace(parser, suffix, input) ==
    LET result == Run(parser, input)
    IN  IF result.Err # Nil
        THEN Failure(result.Err, input, parser.zero)
        ELSE LET suffixResult == Run(suffix, result.Remaining)
             IN  IF suffixResult.Err # Nil
                 THEN Failure(suffixResult.Err, result.Remaining, parser.zero)
                 ELSE Success(result.Output, suffixResult.Remaining)

Terminated(parser, suffix, input) ==
    LET result == Run(parser, input)
    IN  IF result.Err # Nil
        THEN Failure(result.Err, input, parser.zero)
        ELSE LET suffixResult == Run(suffix, result.Remaining)
             IN  IF suffixResult.Err # Nil
                 THEN Failure(suffixResult.Err, input, parser.zero)
                 ELSE Success(result.Output, suffixResult.Remaining)

Delimited(prefix, parser, suffix, input) ==
    Terminated(Parser("Preceded", <<>>, <<>>, <<prefix, parser>>, parser.zero), suffix, input)

\* What the loops of sequence.go and multi.go do in one iteration: return
\* from the parser (ret) with the Result val, or go round with new values of
\* the locals results and remaining.  calls lists the sub-parser
\* applications the iteration made.
Return(val, calls) ==
    [ret |-> TRUE, val |-> val, results |-> <<>>, remaining |-> <<>>, calls |-> calls]

Continue(results, remaining, calls) ==
    [ret |-> FALSE, val |-> Nil, results |-> results, remaining |-> remaining,
     calls |-> calls]

\* Sequence failing with the input its failing parser was given.
SequenceIterStopsInPlace(res, idx, input, remaining, outputs) ==
    LET calls == <<Call(idx, remaining, res)>>
    IN  IF res.Err # Nil
        THEN Return(Failure(res.Err, remaining, ZeroSlice), calls)
        ELSE Continue(Append(outputs, res.Output), res.Remaining, calls)

\* One iteration of the range loop of Sequence: the idx-th parser.
SequenceIter(res, idx, input, remaining, outputs) ==
    LET calls == <<Call(idx, remaining, res)>>
    IN  IF res.Err # Nil
        THEN Return(Failure(res.Err, input, ZeroSlice), calls)
        ELSE Continue(Append(outputs, res.Output), res.Remaining, calls)

RECURSIVE SequenceLoop(_, _, _, _, _)
\* The range loop of Sequence from its i-th parser on.
SequenceLoop(parsers, i, input, remaining, outputs) ==
    IF i > Len(parsers)
    THEN Success(Value(outputs), remaining)
    ELSE LET it == SequenceIter(Run(parsers[i], remaining), i, input, remaining, outputs)
         IN  IF it.ret
             THEN it.val
             ELSE SequenceLoop(parsers, i + 1, input, it.remaining, it.results)

Sequence(parsers, input) == SequenceLoop(parsers, 1, input, input, <<>>)

(***************************************************************************)
(* multi.go.  The loops are written as one operator per iteration.         *)
(***************************************************************************)
\* The test Count makes before its loop.
CountRefuses(count, input) == Len(input) = 0 \/ count = 0

\* Count handing back, when an application fails, what it had collected.
CountIterKeepsPartial(result, input, remaining, outputs) ==
    LET calls == <<Call(1, remaining, result)>>
    IN  IF result.Err # Nil
        THEN Return(Failure(result.Err, input, Value(outputs)), calls)
        ELSE Continue(Append(outputs, result.Output), result.Remaining, calls)

\* One iteration of the for loop of Count.
CountIter(result, input, remaining, outputs) ==
    LET calls == <<Call(1, remaining, result)>>
    IN  IF result.Err # Nil
        THEN Return(Failure(result.Err, input, ZeroSlice), calls)
        ELSE Continue(Append(outputs, result.Output), result.Remaining, calls)

RECURSIVE CountLoop(_, _, _, _, _, _)
\* The for loop of Count from iteration i on.
CountLoop(parse, count, i, input, remaining, outputs) ==
    IF ~(i < count)
    THEN Success(Value(outputs), remaining)
    ELSE LET it == CountIter(Run(parse, remaining), input, remaining, outputs)
         IN  IF it.ret
             THEN it.val
             ELSE CountLoop(parse, count, i + 1, input, it.remaining, it.results)

Count(parse, count, input) ==
    IF CountRefuses(count, input)
    THEN Failure(NewError(input, <<"Count">>), input, ZeroSlice)
    ELSE CountLoop(parse, count, 0, input, input, <<>>)

\* Many0 leaving its loop with what it collected when p makes no progress.
Many0IterBreaks(res, input, remaining, results) ==
    LET calls == <<Call(1, remaining, res)>>
    IN  IF res.Err # Nil \/ Len(res.Remaining) = Len(remaining)
        THEN Return(Success(Value(results), remaining), calls)
        ELSE Continue(Append(results, res.Output), res.Remaining, calls)

\* Many0 failing, as Many1 does, when p does not match at all.
Many0IterStrict(res, input, remaining, results) ==
    LET calls == <<Call(1, remaining, res)>>
    IN  IF res.Err # Nil /\ Len(results) = 0
        THEN Return(Failure(res.Err, input, ZeroSlice), calls)
        ELSE IF res.Err # Nil
        THEN Return(Success(Value(results), remaining), calls)
        ELSE IF Len(res.Remaining) = Len(remaining)
        THEN Return(Failure(NewError(input, <<"Many0">>), input, ZeroSlice), calls)
        ELSE Continue(Append(results, res.Output), res.Remaining, calls)

\* Many0 handing back the input it was given when its loop ends.
Many0IterRewinds(res, input, remaining, results) ==
    LET calls == <<Call(1, remaining, res)>>
    IN  IF res.Err # Nil
        THEN Return(Success(Value(results), input), calls)
        ELSE IF Len(res.Remaining) = Len(remaining)
        THEN Return(Failure(NewError(input, <<"Many0">>), input, ZeroSlice), calls)
        ELSE Continue(Append(results, res.Output), res.Remaining, calls)

\* One iteration of the loop of Many0.
Many0Iter(res, input, remaining, results) ==
    LET calls == <<Call(1, remaining, res)>>
    IN  IF res.Err # Nil
        THEN Return(Success(Value(results), remaining), calls)
        ELSE IF Len(res.Remaining) = Len(remaining)
        THEN Return(Failure(NewError(input, <<"Many0">>), input, ZeroSlice), calls)
        ELSE Continue(Append(results, res.Output), res.Remaining, calls)

RECURSIVE Many0Loop(_, _, _, _)
Many0Loop(parse, input, remaining, results) ==
    LET it == Many0Iter(Run(parse, remaining), input, remaining, results)
    IN  IF it.ret THEN it.val ELSE Many0Loop(parse, input, it.remaining, it.results)

Many0(parse, input) == Many0Loop(parse, input, input, <<>>)

\* Many1 starting its loop with an empty results slice.
Many1FirstDropsOutput(first, input) ==
    LET calls == <<Call(1, input, first)>>
    IN  IF first.Err # Nil
        THEN Return(Failure(first.Err, input, ZeroSlice), calls)
        ELSE IF Len(first.Remaining) = Len(input)
        THEN Return(Failure(NewError(input, <<"Many1">>), input, ZeroSlice), calls)
        ELSE Continue(<<>>, first.Remaining, calls)

\* Many1 up to the start of its loop.
Many1First(first, input) ==
    LET calls == <<Call(1, input, first)>>
    IN  IF first.Err # Nil
        THEN Return(Failure(first.Err, input, ZeroSlice), calls)
        ELSE IF Len(first.Remaining) = Len(input)
        THEN Return(Failure(NewError(input, <<"Many1">>), input, ZeroSlice), calls)
        ELSE Continue(<<first.Output>>, first.Remaining, calls)

\* The loop of Many1 without its check for progress.
Many1IterUnguarded(res, input, remaining, results) ==
    LET calls == <<Call(1, remaining, res)>>
    IN  IF res.Err # Nil
        THEN Return(Success(Value(results), remaining), calls)
        ELSE Continue(Append(results, res.Output), res.Remaining, calls)

\* One iteration of the loop of Many1.
Many1Iter(res, input, remaining, results) ==
    LET calls == <<Call(1, remaining, res)>>
    IN  IF res.Err # Nil
        THEN Return(Success(Value(results), remaining), calls)
        ELSE IF Len(res.Remaining) = Len(remaining)
        THEN Return(Failure(NewError(input, <<"Many1">>), input, ZeroSlice), calls)
        ELSE Continue(Append(results, res.Output), res.Remaining, calls)

RECURSIVE Many1Loop(_, _, _, _)
Many1Loop(parse, input, remaining, results) ==
    LET it == Many1Iter(Run(parse, remaining), input, remaining, results)
    IN  IF it.ret THEN it.val ELSE Many1Loop(parse, input, it.remaining, it.results)

Many1(parse, input) ==
    LET it == Many1First(Run(parse, input), input)
    IN  IF it.ret THEN it.val ELSE Many1Loop(parse, input, it.remaining, it.results)

\* SeparatedList0 requiring a first element, as SeparatedList1 does.
SeparatedList0FirstStrict(res, input) ==
    LET calls == <<Call(1, input, res)>>
    IN  IF res.Err # Nil
        THEN Return(Failure(res.Err, input, ZeroSlice), calls)
        ELSE IF Len(res.Remaining) = Len(input)
        THEN Return(Failure(NewError(input, <<"SeparatedList0">>), input, ZeroSlice), calls)
        ELSE Continue(<<res.Output>>, res.Remaining, calls)

\* SeparatedList0 up to the start of its loop.
SeparatedList0First(res, input) ==
    LET calls == <<Call(1, input, res)>>
    IN  IF res.Err # Nil
        THEN Return(Success(Value(<<>>), input), calls)
        ELSE IF Len(res.Remaining) = Len(input)
        THEN Return(Failure(NewError(input, <<"SeparatedList0">>), input, ZeroSlice), calls)
        ELSE Continue(<<res.Output>>, res.Remaining, calls)

\* The end of an iteration of the loop of SeparatedList0: parserResult is
\* parse(separatorResult.Remaining).
SeparatedList0Element(parserResult, separatorResult, remaining, results) ==
    IF parserResult.Err # Nil
    THEN Return(Success(Value(results), remaining),
                <<Call(2, remaining, separatorResult),
                  Call(1, separatorResult.Remaining, parserResult)>>)
    ELSE Continue(Append(results, parserResult.Output), parserResult.Remaining,
                  <<Call(2, remaining, separatorResult),
                    Call(1, separatorResult.Remaining, parserResult)>>)

\* One iteration of the loop of SeparatedList0: separatorResult is
\* separator(remaining).
SeparatedList0Iter(parse, separatorResult, input, remaining, results) ==
    IF separatorResult.Err # Nil
    THEN Return(Success(Value(results), remaining),
                <<Call(2, remaining, separatorResult)>>)
    ELSE IF Len(separatorResult.Remaining) = Len(remaining)
    THEN Return(Failure(NewError(input, <<"SeparatedList0">>), input, ZeroSlice),
                <<Call(2, remaining, separatorResult)>>)
    ELSE SeparatedList0Element(Run(parse, separatorResult.Remaining),
                               separatorResult, remaining, results)

RECURSIVE SeparatedList0Loop(_, _, _, _, _)
SeparatedList0Loop(parse, separator, input, remaining, results) ==
    LET it == SeparatedList0Iter(parse, Run(separator, remaining), input,
                                 remaining, results)
    IN  IF it.ret
        THEN it.val
        ELSE SeparatedList0Loop(parse, separator, input, it.remaining, it.results)

SeparatedList0(parse, separator, input) ==
    LET it == SeparatedList0First(Run(parse, input), input)
    IN  IF it.ret
        THEN it.val
        ELSE SeparatedList0Loop(parse, separator, input, it.remaining, it.results)

\* SeparatedList1 up to the start of its loop.
SeparatedList1First(res, input) ==
    LET calls == <<Call(1, input, res)>>
    IN  IF res.Err # Nil
        THEN Return(Failure(res.Err, input, ZeroSlice), calls)
        ELSE IF Len(res.Remaining) = Len(input)
        THEN Return(Failure(NewError(input, <<"SeparatedList0">>), input, ZeroSlice), calls)
        ELSE Continue(<<res.Output>>, res.Remaining, calls)

\* SeparatedList1 leaving a separator consumed when no element follows it.
SeparatedList1ElementKeepsSeparator(parserResult, separatorResult, remaining, results) ==
    IF parserResult.Err # Nil
    THEN Return(Success(Value(results), separatorResult.Remaining),
                <<Call(2, remaining, separatorResult),
                  Call(1, separatorResult.Remaining, parserResult)>>)
    ELSE Continue(Append(results, parserResult.Output), parserResult.Remaining,
                  <<Call(2, remaining, separatorResult),
                    Call(1, separatorResult.Remaining, parserResult)>>)

\* The end of an iteration of the loop of SeparatedList1: parserResult is
\* parse(separatorResult.Remaining).
SeparatedList1Element(parserResult, separatorResult, remaining, results) ==
    IF parserResult.Err # Nil
    THEN Return(Success(Value(results), remaining),
                <<Call(2, remaining, separatorResult),
                  Call(1, separatorResult.Remaining, parserResult)>>)
    ELSE Continue(Append(results, parserResult.Output), parserResult.Remaining,
                  <<Call(2, remaining, separatorResult),
                    Call(1, separatorResult.Remaining, parserResult)>>)

\* One iteration of the loop of SeparatedList1: separatorResult is
\* separator(remaining).
SeparatedList1Iter(parse, separatorResult, input, remaining, results) ==
    IF separatorResult.Err # Nil
    THEN Return(Success(Value(results), remaining),
                <<Call(2, remaining, separatorResult)>>)
    ELSE IF Len(separatorResult.Remaining) = Len(remaining)
    THEN Return(Failure(NewError(input, <<"SeparatedList0">>), input, ZeroSlice),
                <<Call(2, remaining, separatorResult)>>)
    ELSE SeparatedList1Element(Run(parse, separatorResult.Remaining),
                               separatorResult, remaining, results)

RECURSIVE SeparatedList1Loop(_, _, _, _, _)
SeparatedList1Loop(parse, separator, input, remaining, results) ==
    LET it == SeparatedList1Iter(parse, Run(separator, remaining), input,
                                 remaining, results)
    IN  IF it.ret
        THEN it.val
        ELSE SeparatedList1Loop(parse, separator, input, it.remaining, it.results)

SeparatedList1(parse, separator, input) ==
    LET it == SeparatedList1First(Run(parse, input), input)
    IN  IF it.ret
        THEN it.val
        ELSE SeparatedList1Loop(parse, separator, input, it.remaining, it.results)

(***************************************************************************)
(* branch.go                                                               *)
(***************************************************************************)
\* Alternative returning the result of the parser it tried, whatever it is.
AlternativeIterReturnsAny(result, idx, input) ==
    LET calls == <<Call(idx, input, result)>>
    IN  Return(result, calls)

\* One iteration of the range loop of Alternative: the idx-th parser.
AlternativeIter(result, idx, input) ==
    LET calls == <<Call(idx, input, result)>>
    IN  IF result.Err = Nil
        THEN Return(result, calls)
        ELSE Continue(<<>>, <<>>, calls)

\* What Alternative returns when the loop runs out of parsers.
AlternativeExhausted(input, zero) ==
    Failure(NewError(input, <<"Alternative">>), input, zero)

RECURSIVE AlternativeLoop(_, _, _, _)
AlternativeLoop(parsers, idx, zero, input) ==
    IF idx > Len(parsers)
    THEN AlternativeExhausted(input, zero)
    ELSE LET it == AlternativeIter(Run(parsers[idx], input), idx, input)
         IN  IF it.ret THEN it.val ELSE AlternativeLoop(parsers, idx + 1, zero, input)

Alternative(parsers, zero, input) == AlternativeLoop(parsers, 1, zero, input)

(***************************************************************************)
(* The earlier revision of the library, over []rune inputs and             *)
(* interface{} outputs: the zero output of a Failure is the nil interface. *)
(***************************************************************************)
LegacyFailure(err, input) == Failure(err, input, NilValue)

LegacyChar(character, input) ==
    IF Len(input) = 0 \/ input[1] # character
    THEN LegacyFailure(NewError(input, <<character>>), input)
    ELSE Success(Value(<<character>>), From(input, 1))

\* The runes "0123456789".
DigitRunes == <<"0", "1", "2", "3", "4", "5", "6", "7", "8", "9">>

LegacyTakeWhileOneOf(collection, input) ==
    LET index == {collection[i] : i \in 1..Len(collection)}
        expected == <<"chars(">> \o collection \o <<")">>
    IN  IF Len(input) = 0
        THEN LegacyFailure(NewError(input, expected), input)
        ELSE LET stops == {pos \in 0..(Len(input) - 1) : input[pos + 1] \notin index}
                 pos == IF stops = {} THEN Len(input) ELSE Min(stops)
             IN  IF pos = 0
                 THEN LegacyFailure(NewError(input, expected), input)
                 ELSE Success(Value(Upto(input, pos)), From(input, pos))

LegacyOptional(p, input) ==
    LET result == Run(p, input)
    IN  IF result.Err # Nil /\ ~IsFatal(result.Err)
        THEN [result EXCEPT !.Err = Nil]
        ELSE result

\* Error.Add: e.Expected grows by from.Expected, e.Err is set if still nil.
ErrorAdd(e, from) ==
    <<[Input |-> e[1].Input,
       Err |-> IF e[1].Err = Nil THEN from[1].Err ELSE e[1].Err,
       Expected |-> e[1].Expected \o from[1].Expected]>>

RECURSIVE LegacyAlternativeLoop(_, _, _, _)
\* The range loop of the earlier Alternative from its idx-th parser on; err
\* is the error accumulated so far.
LegacyAlternativeLoop(parsers, idx, err, input) ==
    IF idx > Len(parsers)
    THEN LegacyFailure(err, input)
    ELSE LET res == Run(parsers[idx], input)
         IN  IF res.Err = Nil \/ IsFatal(res.Err)
             THEN res
             ELSE LET merged ==
                          IF err = Nil \/ Len(err[1].Input) > Len(res.Err[1].Input)
                          THEN res.Err
                          ELSE IF Len(err[1].Input) = Len(res.Err[1].Input)
                          THEN ErrorAdd(err, res.Err)
                          ELSE err
                  IN  LegacyAlternativeLoop(parsers, idx + 1, merged, input)

LegacyAlternative(parsers, input) == LegacyAlternativeLoop(parsers, 1, Nil, input)

LegacyExpect(p, expected, input) ==
    LET res == Run(p, input)
    IN  IF res.Err # Nil /\ ~IsFatal(res.Err)
        THEN [res EXCEPT !.Err = <<[res.Err[1] EXCEPT !.Expected = expected]>>]
        ELSE res

RECURSIVE Decimal(_)
\* The number a run of decimal digits denotes.
Decimal(digits) ==
    IF Len(digits) = 0
    THEN 0
    ELSE 10 * Decimal(Upto(digits, Len(digits) - 1)) + (Ord(digits[Len(digits)]) - 48)

\* strconv.ParseFloat on a digit run with an optional fraction: the value
\* mantissa / 10^scale is the pair <<mantissa, scale>>.
ParseFloat(parsed) ==
    LET dots == {i \in 1..Len(parsed) : parsed[i] = "."}
        whole == IF dots = {} THEN parsed ELSE Upto(parsed, Min(dots) - 1)
        fraction == IF dots = {} THEN <<>> ELSE From(parsed, Min(dots))
    IN  IF Len(whole) + Len(fraction) = 0
        THEN [val |-> <<0, 0>>, err |-> <<"invalid syntax">>]
        ELSE [val |-> <<Decimal(whole \o fraction), Len(fraction)>>, err |-> Nil]

\* numbers.go Float, from strconv.ParseFloat to the end: result is the Result
\* whose Output receives the value, parsed the text that is converted.
FloatConvert(input, negative, result, parsed) ==
    LET converted == ParseFloat(parsed)
    IN  IF converted.err # Nil
        THEN LegacyFailure(NewFatalError(input, converted.err, <<>>), input)
        ELSE [result EXCEPT !.Output =
                 Value(IF negative
                       THEN <<0 - converted.val[1], converted.val[2]>>
                       ELSE converted.val)]

\* The two nested ifs on resultTest: the fraction is kept only when both the
\* dot and the digits after it were parsed.
FloatFraction(input, negative, digits, resultTest) ==
    IF resultTest.Err = Nil
    THEN FloatConvert(input, negative, resultTest,
                      digits.Output.val \o <<".">> \o resultTest.Output.val)
    ELSE FloatConvert(input, negative, digits, digits.Output.val)

\* resultTest := dotParser(result.Remaining), then digitsParser on what the
\* dot left.
FloatDot(input, negative, digits, dot) ==
    FloatFraction(input, negative, digits,
                  IF dot.Err = Nil
                  THEN LegacyTakeWhileOneOf(DigitRunes, dot.Remaining)
                  ELSE dot)

\* The outcome of Expect(digitsParser, "digits"): returned as it is when it
\* failed.
FloatDigits(input, negative, digits) ==
    IF digits.Err # Nil
    THEN digits
    ELSE FloatDot(input, negative, digits, LegacyChar(".", digits.Remaining))

\* The outcome of minusParser: the digits are looked for in its Remaining.
FloatSign(input, minus) ==
    FloatDigits(input, minus.Err = Nil,
                LegacyExpect(Parser("LegacyTakeWhileOneOf", DigitRunes, <<>>, <<>>, NilValue),
                             <<<<"digits">>>>, minus.Remaining))

\* numbers.go Float
LegacyFloat(input) == FloatSign(input, LegacyChar("-", input))

(***************************************************************************)
(* bytes.go Many and the legacy DiscardAll.  Their loops have no exit but  *)
(* a failure of the parser, so they are run one iteration at a time only.  *)
(***************************************************************************)
\* One iteration of the loop of Many, res being p(remaining).
ManyIter(res, remaining, results) ==
    IF res.Err # Nil
    THEN Return(Success(Value(results), remaining), <<Call(1, remaining, res)>>)
    ELSE Continue(Append(results, res.Output), res.Remaining,
                  <<Call(1, remaining, res)>>)

\* One application of the parser of DiscardAll, the one before the loop or
\* the one in it, with the return that follows the loop; res is
\* parser(remaining).
DiscardAllIter(res, remaining) ==
    IF res.Err # Nil
    THEN Return([res EXCEPT !.Output = NilValue, !.Err = Nil],
                <<Call(1, remaining, res)>>)
    ELSE Continue(<<>>, res.Remaining, <<Call(1, remaining, res)>>)

(***************************************************************************)
(* characters.go: Int64, Int8, UInt8                                       *)
(***************************************************************************)
\* The decimal digits of 1 << (bitSize - 1) and of 1 << bitSize - 1.
Cutoff(bitSize) ==
    IF bitSize = 8
    THEN <<1, 2, 8>>
    ELSE <<9, 2, 2, 3, 3, 7, 2, 0, 3, 6, 8, 5, 4, 7, 7, 5, 8, 0, 8>>

MaxVal(bitSize) ==
    IF bitSize = 8
    THEN <<2, 5, 5>>
    ELSE <<1, 8, 4, 4, 6, 7, 4, 4, 0, 7, 3, 7, 0, 9, 5, 5, 1, 6, 1, 5>>

RECURSIVE Significant(_)
\* A digit run without its leading zeros.
Significant(digits) ==
    IF Len(digits) > 0 /\ digits[1] = "0"
    THEN Significant(From(digits, 1))
    ELSE digits

\* The digits of a run as numbers, leading zeros dropped.
Magnitude(digits) ==
    LET run == Significant(digits)
    IN  [i \in 1..Len(run) |-> Ord(run[i]) - 48]

\* The number with digits mag is greater than the one with digits limit.
Above(mag, limit) ==
    \/ Len(mag) > Len(limit)
    \/ /\ Len(mag) = Len(limit)
       /\ \E i \in 1..Len(mag) :
              /\ mag[i] > limit[i]
              /\ \A j \in 1..(i - 1) : mag[j] = limit[j]

IsNumber(digits) ==
    Len(digits) > 0 /\ \A i \in 1..Len(digits) : IsDigit(digits[i])

\* strconv.ParseUint(s, 10, bitSize)
ParseUint(s, bitSize) ==
    IF ~IsNumber(s)
    THEN [val |-> 0, err |-> <<"invalid syntax">>]
    ELSE IF Above(Magnitude(s), MaxVal(bitSize))
    THEN [val |-> 0, err |-> <<"value out of range">>]
    ELSE [val |-> Decimal(s), err |-> Nil]

\* strconv.ParseInt(s, 10, bitSize)
ParseInt(s, bitSize) ==
    LET neg == Len(s) > 0 /\ s[1] = "-"
        digits == IF neg THEN From(s, 1) ELSE s
        mag == Magnitude(digits)
        cutoff == Cutoff(bitSize)
    IN  IF ~IsNumber(digits)
        THEN [val |-> 0, err |-> <<"invalid syntax">>]
        ELSE IF Above(mag, cutoff) \/ (~neg /\ mag = cutoff)
        THEN [val |-> 0, err |-> <<"value out of range">>]
        ELSE [val |-> IF neg THEN 0 - Decimal(digits) ELSE Decimal(digits),
              err |-> Nil]

\* The zero value of the integer types.
ZeroInt == Value(<<0>>)

\* Int64, Int8 and UInt8 after their parser returned result: n is what the
\* conversion of result.Output gave.
Converted(name, result, n, input) ==
    IF n.err # Nil
    THEN Failure(NewError(input, <<name>>), input, ZeroInt)
    ELSE Success(Value(<<n.val>>), result.Remaining)

\* parser is Recognize(Sequence(Optional(Token("-")), Digit1())).
Int64(parser, input) ==
    LET result == Run(parser, input)
    IN  IF result.Err # Nil
        THEN Failure(NewError(input, <<"Int64">>), input, ZeroInt)
        ELSE Converted("Int64", result, ParseInt(result.Output.val, 64), input)

\* Int8 converting with the width of Int64.
Int8Wide(parser, input) ==
    LET result == Run(parser, input)
    IN  IF result.Err # Nil
        THEN Failure(NewError(input, <<"Int8">>), input, ZeroInt)
        ELSE Converted("Int8", result, ParseInt(result.Output.val, 64), input)

Int8(parser, input) ==
    LET result == Run(parser, input)
    IN  IF result.Err # Nil
        THEN Failure(NewError(input, <<"Int8">>), input, ZeroInt)
        ELSE Converted("Int8", result, ParseInt(result.Output.val, 8), input)

\* parser is Digit1().
UInt8(parser, input) ==
    LET result == Run(parser, input)
    IN  IF result.Err # Nil
        THEN Failure(NewError(input, <<"UInt8">>), input, ZeroInt)
        ELSE Converted("UInt8", result, ParseUint(result.Output.val, 8), input)

(***************************************************************************)
(* The closure each constructor returns, by the function that built it.    *)
(***************************************************************************)
Closure(p, input) ==
    CASE p.kind = "Char" -> Char(p.arg[1], input)
      [] p.kind = "AnyChar" -> AnyChar(input)
      [] p.kind = "Token" -> Token(p.arg, input)
      [] p.kind = "Alpha0" -> Alpha0(input)
      [] p.kind = "Alpha1" -> Alpha1(input)
      [] p.kind = "Digit0" -> Digit0(input)
      [] p.kind = "Digit1" -> Digit1(input)
      [] p.kind = "Alphanumeric0" -> Alphanumeric0(input)
      [] p.kind = "Alphanumeric1" -> Alphanumeric1(input)
      [] p.kind = "HexDigit0" -> HexDigit0(input)
      [] p.kind = "HexDigit1" -> HexDigit1(input)
      [] p.kind = "Whitespace0" -> Whitespace0(input)
      [] p.kind = "Whitespace1" -> Whitespace1(input)
      [] p.kind = "Int64" -> Int64(p.subs[1], input)
      [] p.kind = "Int8" -> Int8(p.subs[1], input)
      [] p.kind = "UInt8" -> UInt8(p.subs[1], input)
      [] p.kind = "Take" -> Take(p.num[1], input)
      [] p.kind = "TakeWhileMN" -> TakeWhileMN(p.num[1], p.num[2], p.arg[1], input)
      [] p.kind = "Strict" -> Strict(p.arg[1], p.arg[2], p.zero, input)
      [] p.kind = "Map" -> Map(p.subs[1], p.arg[1], p.zero, input)
      [] p.kind = "Optional" -> Optional(p.subs[1], input)
      [] p.kind = "Peek" -> Peek(p.subs[1], input)
      [] p.kind = "Recognize" -> Recognize(p.subs[1], input)
      [] p.kind = "Assign" -> Assign(Value(p.arg), p.zero, p.subs[1], input)
      [] p.kind = "TakeUntil" -> TakeUntil(p.subs[1], input)
      [] p.kind = "Pair" -> Pair(p.subs[1], p.subs[2], p.zero, input)
      [] p.kind = "SeparatedPair" ->
            SeparatedPair(p.subs[1], p.subs[2], p.subs[3], p.zero, input)
      [] p.kind = "Preceded" -> Preceded(p.subs[1], p.subs[2], input)
      [] p.kind = "Terminated" -> Terminated(p.subs[1], p.subs[2], input)
      [] p.kind = "Delimited" -> Delimited(p.subs[1], p.subs[2], p.subs[3], input)
      [] p.kind = "Sequence" -> Sequence(p.subs, input)
      [] p.kind = "Count" -> Count(p.subs[1], p.num[1], input)
      [] p.kind = "Many0" -> Many0(p.subs[1], input)
      [] p.kind = "Many1" -> Many1(p.subs[1], input)
      [] p.kind = "SeparatedList0" -> SeparatedList0(p.subs[1], p.subs[2], input)
      [] p.kind = "SeparatedList1" -> SeparatedList1(p.subs[1], p.subs[2], input)
      [] p.kind = "Alternative" -> Alternative(p.subs, p.zero, input)
      [] p.kind = "LegacyChar" -> LegacyChar(p.arg[1], input)
      [] p.kind = "LegacyTakeWhileOneOf" -> LegacyTakeWhileOneOf(p.arg, input)
      [] p.kind = "LegacyOptional" -> LegacyOptional(p.subs[1], input)
      [] p.kind = "LegacyAlternative" -> LegacyAlternative(p.subs, input)
      [] p.kind = "LegacyExpect" -> LegacyExpect(p.subs[1], <<p.arg>>, input)
      [] p.kind = "LegacyFloat" -> LegacyFloat(input)

\* Applying a parser to an input: parser(input).
Run(p, input) == Closure(p, input)

(***************************************************************************)
(* The parsers the model builds and applies.                               *)
(***************************************************************************)
PChar(c) == Parser("Char", <<c>>, <<>>, <<>>, ZeroRune)
PAnyChar == Parser("AnyChar", <<>>, <<>>, <<>>, ZeroRune)
PToken(t) == Parser("Token", t, <<>>, <<>>, ZeroString)
PAlpha0 == Parser("Alpha0", <<>>, <<>>, <<>>, ZeroString)
PAlpha1 == Parser("Alpha1", <<>>, <<>>, <<>>, ZeroString)
PDigit0 == Parser("Digit0", <<>>, <<>>, <<>>, ZeroString)
PDigit1 == Parser("Digit1", <<>>, <<>>, <<>>, ZeroString)
PAlphanumeric0 == Parser("Alphanumeric0", <<>>, <<>>, <<>>, ZeroString)
PAlphanumeric1 == Parser("Alphanumeric1", <<>>, <<>>, <<>>, ZeroString)
PHexDigit0 == Parser("HexDigit0", <<>>, <<>>, <<>>, ZeroString)
PHexDigit1 == Parser("HexDigit1", <<>>, <<>>, <<>>, ZeroString)
PWhitespace0 == Parser("Whitespace0", <<>>, <<>>, <<>>, ZeroString)
PWhitespace1 == Parser("Whitespace1", <<>>, <<>>, <<>>, ZeroString)
PTake(n) == Parser("Take", <<>>, <<n>>, <<>>, ZeroString)
PTakeWhileMN(m, n, pred) == Parser("TakeWhileMN", <<pred>>, <<m, n>>, <<>>, ZeroString)
PStrict(ok, bad) == Parser("Strict", <<ok, bad>>, <<>>, <<>>, ZeroRune)
PMap(p, fn) ==
    Parser("Map", <<fn>>, <<>>, <<p>>, IF fn = "length" THEN Value(<<0>>) ELSE p.zero)
POptional(p) == Parser("Optional", <<>>, <<>>, <<p>>, p.zero)
PPeek(p) == Parser("Peek", <<>>, <<>>, <<p>>, p.zero)
PRecognize(p) == Parser("Recognize", <<>>, <<>>, <<p>>, ZeroString)
PAssign(value, p) == Parser("Assign", value, <<>>, <<p>>, ZeroString)
PTakeUntil(p) == Parser("TakeUntil", <<>>, <<>>, <<p>>, ZeroString)
PPair(l, r) == Parser("Pair", <<>>, <<>>, <<l, r>>, Value(<<l.zero, r.zero>>))
PSeparatedPair(l, sep, r) ==
    Parser("SeparatedPair", <<>>, <<>>, <<l, sep, r>>, Value(<<l.zero, r.zero>>))
PPreceded(prefix, p) == Parser("Preceded", <<>>, <<>>, <<prefix, p>>, p.zero)
PTerminated(p, suffix) == Parser("Terminated", <<>>, <<>>, <<p, suffix>>, p.zero)
PDelimited(prefix, p, suffix) ==
    Parser("Delimited", <<>>, <<>>, <<prefix, p, suffix>>, p.zero)
PSequence(ps) == Parser("Sequence", <<>>, <<>>, ps, ZeroSlice)
PCount(p, n) == Parser("Count", <<>>, <<n>>, <<p>>, ZeroSlice)
PMany0(p) == Parser("Many0", <<>>, <<>>, <<p>>, ZeroSlice)
PMany1(p) == Parser("Many1", <<>>, <<>>, <<p>>, ZeroSlice)
PSeparatedList0(p, sep) == Parser("SeparatedList0", <<>>, <<>>, <<p, sep>>, ZeroSlice)
PSeparatedList1(p, sep) == Parser("SeparatedList1", <<>>, <<>>, <<p, sep>>, ZeroSlice)
PAlternative(ps, zero) == Parser("Alternative", <<>>, <<>>, ps, zero)
PLegacyChar(c) == Parser("LegacyChar", <<c>>, <<>>, <<>>, NilValue)
PLegacyStrict(ok, bad) == Parser("Strict", <<ok, bad>>, <<>>, <<>>, NilValue)
PLegacyFloat == Parser("LegacyFloat", <<>>, <<>>, <<>>, NilValue)
PLegacyOptional(p) == Parser("LegacyOptional", <<>>, <<>>, <<p>>, NilValue)
PLegacyAlternative(ps) == Parser("LegacyAlternative", <<>>, <<>>, ps, NilValue)
PLegacyExpect(p, expected) == Parser("LegacyExpect", expected, <<>>, <<p>>, NilValue)

\* Parsers whose output is a rune.
RuneParsers ==
    {PChar("a"), PChar("1"), PAnyChar, PStrict("a", "1"), PStrict("1", "a")}

\* Parsers whose output is a string.
StringParsers ==
    {PToken(<<"a", "1">>), PToken(<<"-">>), PAlpha1, PDigit0, PDigit1}

Primitives ==
    RuneParsers \cup StringParsers
        \cup {PChar("-"), PAlpha0, PToken(<<>>)}
        \cup {PAlphanumeric0, PAlphanumeric1, PHexDigit0, PHexDigit1,
              PWhitespace0, PWhitespace1}
        \cup {PTake(n) : n \in 0..2}
        \cup {PTakeWhileMN(m, n, "IsAlpha") : m \in 0..2, n \in 1..2}

\* Parsers that a combinator is given as an argument.
Arguments ==
    {PChar("a"), PChar("-"), PStrict("a", "1"), PDigit1, PDigit0,
     POptional(PChar("a")), POptional(PStrict("a", "1")), PPeek(PChar("a")),
     PPreceded(PChar("-"), PDigit1)}

Separators == {PChar("-"), POptional(PChar("-")), PStrict("-", "."), PDigit1}

\* Optional(Token("-")) then Digit1, recognized: the parser Int64 builds.
IntegerShape == PRecognize(PSequence(<<POptional(PToken(<<"-">>)), PDigit1>>))

Optionals ==
    {POptional(p) : p \in Arguments \cup {POptional(PChar("-")), PMany1(PChar("a"))}}

Alternatives ==
    {PAlternative(<<>>, ZeroRune)}
        \cup {PAlternative(<<p>>, ZeroRune) : p \in RuneParsers}
        \cup {PAlternative(<<p, q>>, ZeroRune) : p, q \in RuneParsers}
        \cup {PAlternative(<<p, q, r>>, ZeroRune) : p, q, r \in RuneParsers}
        \cup {PAlternative(<<p, q>>, ZeroString) : p, q \in StringParsers}

Repetitions ==
    {PMany0(p) : p \in Arguments \cup {IntegerShape}}
        \cup {PMany1(p) : p \in Arguments \cup {IntegerShape}}

SeparatedLists ==
    {PSeparatedList0(p, sep) : p \in Arguments, sep \in Separators}
        \cup {PSeparatedList1(p, sep) : p \in Arguments, sep \in Separators}

Combinators ==
    {PMap(p, fn) : p \in StringParsers, fn \in {"length", "nonEmpty", "single"}}
        \cup {PMap(PStrict("a", "1"), "length")}
        \cup {PPeek(p) : p \in Arguments}
        \cup {PRecognize(p) : p \in Arguments}
        \cup {PAssign(<<"k">>, p) : p \in Arguments}
        \cup {PTakeUntil(p) : p \in Arguments}
        \cup {PPair(l, r) : l, r \in Arguments}
        \cup {PSeparatedPair(l, PChar("-"), r) : l, r \in {PChar("a"), PDigit1, PStrict("a", "1")}}
        \cup {PPreceded(l, r) : l, r \in Arguments}
        \cup {PTerminated(l, r) : l, r \in Arguments}
        \cup {PDelimited(PChar("-"), p, s) : p, s \in Arguments}
        \cup {IntegerShape}

Sequences ==
    {PSequence(<<>>)}
        \cup {PSequence(<<p, q>>) : p, q \in RuneParsers}
        \cup {PSequence(<<p, q, r>>) : p, q, r \in {PChar("a"), PChar("1"), PStrict("a", "1")}}
        \cup {PSequence(<<p, q, r>>) : p, q, r \in {PDigit1, PAlpha0, PToken(<<"-">>)}}

\* Largest number of applications asked of Count.
MaxCount == 3

Counts == {PCount(p, n) : p \in Arguments, n \in 0..MaxCount}

LegacyArguments ==
    {PLegacyChar("a"), PLegacyChar("-"), PLegacyFloat, PLegacyStrict("a", "1")}

LegacyParsers ==
    LegacyArguments
        \cup {PLegacyOptional(p) : p \in LegacyArguments}
        \cup {PLegacyExpect(p, <<"number">>) : p \in LegacyArguments}
        \cup {PLegacyAlternative(<<p, q>>) : p, q \in LegacyArguments}

PMany(p) == Parser("Many", <<>>, <<>>, <<p>>, ZeroSlice)
PDiscardAll(p) == Parser("DiscardAll", <<>>, <<>>, <<p>>, NilValue)

\* Most iterations a loop without a bound of its own is followed for: two
\* more than a loop that consumes input at each iteration can make.
MaxRounds == MaxLen + 2

PlainRepetitions ==
    {PMany(p) : p \in Arguments}
        \cup {PDiscardAll(p) : p \in LegacyArguments \cup {PLegacyOptional(PLegacyChar("a"))}}

PInt64 == Parser("Int64", <<>>, <<>>, <<IntegerShape>>, ZeroInt)
PInt8 == Parser("Int8", <<>>, <<>>, <<IntegerShape>>, ZeroInt)
PUInt8 == Parser("UInt8", <<>>, <<>>, <<PDigit1>>, ZeroInt)

Numbers == {PInt64, PInt8, PUInt8}

Programs ==
    Primitives \cup Optionals \cup Alternatives \cup Repetitions
        \cup SeparatedLists \cup Combinators \cup Sequences \cup Counts
        \cup LegacyParsers \cup Numbers \cup PlainRepetitions

(***************************************************************************)
(* The state: one parser applied to one input.                             *)
(***************************************************************************)
VARIABLES
    parser,     \* the parser being applied
    input,      \* the input it is applied to
    pc,         \* "start": not yet called, "loop": inside its loop, "done"
    remaining,  \* the local remaining of a looping combinator
    results,    \* the local results of a looping combinator
    idx,        \* the position of the range loop of Alternative
    calls,      \* history: the applications of sub-parsers made so far
    result      \* the Result returned, Nil until the parser returns

vars == <<parser, input, pc, remaining, results, idx, calls, result>>

Init ==
    /\ parser \in Programs
    /\ input \in IF parser \in Numbers THEN NumericInputs ELSE Inputs
    /\ pc = "start"
    /\ remaining = input
    /\ results = <<>>
    /\ idx = 1
    /\ calls = <<>>
    /\ result = Nil

\* The parser returns val.
Returns(val) ==
    /\ result' = <<val>>
    /\ pc' = "done"

\* A looping combinator after one iteration it.
Iterates(it) ==
    /\ calls' = calls \o it.calls
    /\ IF it.ret
       THEN /\ Returns(it.val)
            /\ UNCHANGED <<remaining, results>>
       ELSE /\ remaining' = it.remaining
            /\ results' = it.results
            /\ pc' = "loop"
            /\ UNCHANGED result
    /\ UNCHANGED <<parser, input, idx>>

\* A counting loop after one iteration it: idx moves on when the loop goes
\* round.
Advances(it) ==
    /\ calls' = calls \o it.calls
    /\ IF it.ret
       THEN /\ Returns(it.val)
            /\ UNCHANGED <<remaining, results, idx>>
       ELSE /\ remaining' = it.remaining
            /\ results' = it.results
            /\ idx' = idx + 1
            /\ pc' = "loop"
            /\ UNCHANGED result
    /\ UNCHANGED <<parser, input>>

CallPrimitive ==
    /\ pc = "start"
    /\ parser \in Primitives
    /\ Returns(Run(parser, input))
    /\ UNCHANGED <<parser, input, remaining, results, idx, calls>>

CallOptional ==
    /\ pc = "start"
    /\ parser.kind = "Optional"
    /\ calls' = <<Call(1, input, Run(parser.subs[1], input))>>
    /\ Returns(Optional(parser.subs[1], input))
    /\ UNCHANGED <<parser, input, remaining, results, idx>>

CallCombinator ==
    /\ pc = "start"
    /\ parser \in Combinators
    /\ Returns(Run(parser, input))
    /\ UNCHANGED <<parser, input, remaining, results, idx, calls>>

CallNumber ==
    /\ pc = "start"
    /\ parser \in Numbers
    /\ Returns(Run(parser, input))
    /\ UNCHANGED <<parser, input, remaining, results, idx, calls>>

CallLegacy ==
    /\ pc = "start"
    /\ parser \in LegacyParsers
    /\ Returns(Run(parser, input))
    /\ UNCHANGED <<parser, input, remaining, results, idx, calls>>

AlternativeNext ==
    /\ pc \in {"start", "loop"}
    /\ parser.kind = "Alternative"
    /\ idx <= Len(parser.subs)
    /\ LET it == AlternativeIter(Run(parser.subs[idx], input), idx, input)
       IN  /\ calls' = calls \o it.calls
           /\ IF it.ret
              THEN Returns(it.val) /\ UNCHANGED idx
              ELSE idx' = idx + 1 /\ pc' = "loop" /\ UNCHANGED result
    /\ UNCHANGED <<parser, input, remaining, results>>

AlternativeEnd ==
    /\ pc \in {"start", "loop"}
    /\ parser.kind = "Alternative"
    /\ idx > Len(parser.subs)
    /\ Returns(AlternativeExhausted(input, parser.zero))
    /\ UNCHANGED <<parser, input, remaining, results, idx, calls>>

SequenceNext ==
    /\ pc \in {"start", "loop"}
    /\ parser.kind = "Sequence"
    /\ idx <= Len(parser.subs)
    /\ Advances(SequenceIter(Run(parser.subs[idx], remaining), idx, input,
                             remaining, results))

SequenceEnd ==
    /\ pc \in {"start", "loop"}
    /\ parser.kind = "Sequence"
    /\ idx > Len(parser.subs)
    /\ Returns(Success(Value(results), remaining))
    /\ UNCHANGED <<parser, input, remaining, results, idx, calls>>

CountRefuse ==
    /\ pc = "start"
    /\ parser.kind = "Count"
    /\ CountRefuses(parser.num[1], input)
    /\ Returns(Failure(NewError(input, <<"Count">>), input, ZeroSlice))
    /\ UNCHANGED <<parser, input, remaining, results, idx, calls>>

\* idx - 1 is the loop variable i.
CountNext ==
    /\ pc \in {"start", "loop"}
    /\ parser.kind = "Count"
    /\ ~CountRefuses(parser.num[1], input)
    /\ idx - 1 < parser.num[1]
    /\ Advances(CountIter(Run(parser.subs[1], remaining), input, remaining, results))

CountEnd ==
    /\ pc \in {"start", "loop"}
    /\ parser.kind = "Count"
    /\ ~CountRefuses(parser.num[1], input)
    /\ ~(idx - 1 < parser.num[1])
    /\ Returns(Success(Value(results), remaining))
    /\ UNCHANGED <<parser, input, remaining, results, idx, calls>>

Many0Step ==
    /\ pc \in {"start", "loop"}
    /\ parser.kind = "Many0"
    /\ Iterates(Many0Iter(Run(parser.subs[1], remaining), input, remaining, results))

Many1Start ==
    /\ pc = "start"
    /\ parser.kind = "Many1"
    /\ Iterates(Many1First(Run(parser.subs[1], input), input))

Many1Step ==
    /\ pc = "loop"
    /\ parser.kind = "Many1"
    /\ Iterates(Many1Iter(Run(parser.subs[1], remaining), input, remaining, results))

ManyStep ==
    /\ pc \in {"start", "loop"}
    /\ parser.kind = "Many"
    /\ Len(calls) < MaxRounds
    /\ Iterates(ManyIter(Run(parser.subs[1], remaining), remaining, results))

DiscardAllStep ==
    /\ pc \in {"start", "loop"}
    /\ parser.kind = "DiscardAll"
    /\ Len(calls) < MaxRounds
    /\ Iterates(DiscardAllIter(Run(parser.subs[1], remaining), remaining))

SeparatedList0Start ==
    /\ pc = "start"
    /\ parser.kind = "SeparatedList0"
    /\ Iterates(SeparatedList0First(Run(parser.subs[1], input), input))

SeparatedList0Step ==
    /\ pc = "loop"
    /\ parser.kind = "SeparatedList0"
    /\ Iterates(SeparatedList0Iter(parser.subs[1], Run(parser.subs[2], remaining), input,
                                   remaining, results))

SeparatedList1Start ==
    /\ pc = "start"
    /\ parser.kind = "SeparatedList1"
    /\ Iterates(SeparatedList1First(Run(parser.subs[1], input), input))

SeparatedList1Step ==
    /\ pc = "loop"
    /\ parser.kind = "SeparatedList1"
    /\ Iterates(SeparatedList1Iter(parser.subs[1], Run(parser.subs[2], remaining), input,
                                   remaining, results))

Next ==
    \/ CallPrimitive
    \/ CallOptional
    \/ CallCombinator
    \/ CallNumber
    \/ CallLegacy
    \/ AlternativeNext
    \/ AlternativeEnd
    \/ SequenceNext
    \/ SequenceEnd
    \/ CountRefuse
    \/ CountNext
    \/ CountEnd
    \/ Many0Step
    \/ Many1Start
    \/ Many1Step
    \/ ManyStep
    \/ DiscardAllStep
    \/ SeparatedList0Start
    \/ SeparatedList0Step
    \/ SeparatedList1Start
    \/ SeparatedList1Step

Spec == Init /\ [][Next]_vars

(***************************************************************************)
(* Properties                                                              *)
(***************************************************************************)
Returned == pc = "done"

\* The Result the parser returned.
Got == result[1]

Succeeded(res) == res.Err = Nil

\* A sub-parser application that succeeded without consuming any input.
ZeroProgress(call) == Succeeded(call.res) /\ Len(call.res.Remaining) = Len(call.on)

LoopKinds == {"Many0", "Many1", "SeparatedList0", "SeparatedList1"}

\* C1: whenever a parser succeeds on s, its remaining input is a suffix of
\* s; the same holds of every sub-parser application made on the way.
C1_SuccessLeavesSuffix ==
    /\ Returned /\ Succeeded(Got) => IsSuffix(Got.Remaining, input)
    /\ \A i \in 1..Len(calls) :
          Succeeded(calls[i].res) => IsSuffix(calls[i].res.Remaining, calls[i].on)

C1_Witness ==
    /\ Returned
    /\ parser.kind = "SeparatedList0"
    /\ Succeeded(Got)
    /\ Len(input) = 3
    /\ Len(Got.Remaining) = 1

\* C2: whenever a parser fails on s, the remaining input of its result is s.
C2_FailureReportsInput ==
    Returned /\ ~Succeeded(Got) => Got.Remaining = input

\* C3: Many0 and Many1 fail as soon as an application of p succeeds without
\* consuming input: that application is the last one, the error is the
\* combinator's own, the output is nil and the remaining input the original.
C3_ZeroProgressFails ==
    parser.kind \in {"Many0", "Many1"} =>
        \A i \in 1..Len(calls) :
            ZeroProgress(calls[i]) =>
                /\ i = Len(calls)
                /\ Returned
                /\ Got = Failure(NewError(input, <<parser.kind>>), input, NilValue)

C3_Witness ==
    /\ Returned
    /\ parser.kind = "Many1"
    /\ Len(calls) = 3
    /\ ZeroProgress(calls[3])
    /\ ~Succeeded(Got)

\* C4: every step of Many0, Many1, SeparatedList0 and SeparatedList1 either
\* ends the loop or strictly shortens the remaining input, so that the loop
\* of a call on an input of length n is entered at most n times.
C4_RepetitionsTerminate ==
    [][parser.kind \in LoopKinds =>
          \/ pc' = "done"
          \/ pc' = "loop" /\ Len(remaining') < Len(remaining)]_vars

C4_Witness ==
    /\ Returned
    /\ parser.kind = "SeparatedList1"
    /\ Len(calls) >= 4
    /\ Len(Got.Output.val) = 2

\* C5: if p fails fatally on s, Optional(p)(s) is a failure carrying p's
\* error.
C5_OptionalKeepsFatal ==
    Returned /\ parser.kind = "Optional" =>
        LET sub == calls[1].res
        IN  ~Succeeded(sub) /\ IsFatal(sub.Err) => Got.Err = sub.Err

\* C6: when an alternative fails fatally after recoverable failures,
\* Alternative returns that failure at once and applies no later alternative.
C6_AlternativeStopsAtFatal ==
    parser.kind = "Alternative" =>
        \A i \in 1..Len(calls) :
            ~Succeeded(calls[i].res) /\ IsFatal(calls[i].res.Err) =>
                /\ i = Len(calls)
                /\ Returned
                /\ Got.Err = calls[i].res.Err

\* The alternatives that succeed on the input.
Matching == {i \in 1..Len(parser.subs) : Succeeded(Run(parser.subs[i], input))}

C8_OptionalOutcome ==
    Returned /\ parser.kind = "Optional" =>
        LET sub == calls[1].res
        IN  /\ ~Succeeded(sub) /\ ~IsFatal(sub.Err) =>
                  Got = Success(parser.subs[1].zero, input)
            /\ Succeeded(sub) =>
                  Got = Success(sub.Output, sub.Remaining)

C8_Witness ==
    /\ Returned
    /\ parser.kind = "Optional"
    /\ ~Succeeded(calls[1].res)
    /\ ~IsFatal(calls[1].res.Err)
    /\ Len(input) > 0

\* C9: when p fails on its first application, Many0(p) succeeds with an
\* empty collection and the whole input.
C9_Many0ZeroMatches ==
    Returned /\ parser.kind = "Many0" /\ ~Succeeded(calls[1].res) =>
        Got = Success(Value(<<>>), input)

C9_Witness ==
    /\ Returned
    /\ parser.kind = "Many0"
    /\ ~Succeeded(calls[1].res)
    /\ input = <<>>

\* C10: Many1(p) fails with the input untouched when the first application
\* of p fails; when every match consumes input it returns the payloads of
\* the successful applications in order, and the input on which p failed.
C10_Many1Outcome ==
    Returned /\ parser.kind = "Many1" =>
        LET n == Len(calls)
        IN  /\ calls[1].on = input
            /\ \A i \in 1..(n - 1) : calls[i + 1].on = calls[i].res.Remaining
            /\ ~Succeeded(calls[1].res) =>
                  ~Succeeded(Got) /\ Got.Remaining = input
            /\ Succeeded(calls[1].res) /\ (\A i \in 1..n : ~ZeroProgress(calls[i])) =>
                  /\ \A i \in 1..(n - 1) : Succeeded(calls[i].res)
                  /\ ~Succeeded(calls[n].res)
                  /\ Got = Success(Value([i \in 1..(n - 1) |-> calls[i].res.Output]),
                                   calls[n].on)

C10_Witness ==
    /\ Returned
    /\ parser.kind = "Many1"
    /\ Succeeded(Got)
    /\ Len(Got.Output.val) = 2
    /\ Len(Got.Remaining) = 1

\* p consumes at least one unit whenever it succeeds, on every input.
Consuming(p) ==
    \A s \in Inputs : Succeeded(Run(p, s)) => Len(Run(p, s).Remaining) < Len(s)

NeverFatal(p) ==
    \A s \in Inputs : Succeeded(Run(p, s)) \/ ~IsFatal(Run(p, s).Err)

\* C12: for a p that never fails fatally, making Optional(p) optional once
\* more changes nothing: Optional(Optional(p))(s) is the Result Optional(p)(s).
C12_OptionalIdempotent ==
    Returned /\ parser.kind = "Optional" /\ NeverFatal(parser.subs[1]) =>
        Run(POptional(parser), input) = Got

C12_Witness ==
    /\ Returned
    /\ parser.kind = "Optional"
    /\ NeverFatal(parser.subs[1])
    /\ ~Succeeded(calls[1].res)
    /\ Len(input) = 2
    /\ Run(POptional(parser), input) = Success(parser.zero, input)

ListKinds == {"SeparatedList0", "SeparatedList1"}

\* The applications of the element parser that succeeded, and their payloads
\* in the order of the calls.
ElementMatches == SelectSeq(calls, LAMBDA c : c.which = 1 /\ Succeeded(c.res))

Collected == [i \in 1..Len(ElementMatches) |-> ElementMatches[i].res.Output]

\* The list ended on an element that failed after a separator that matched.
TrailingSeparator ==
    /\ Returned
    /\ parser.kind \in ListKinds
    /\ Len(calls) >= 3
    /\ calls[Len(calls)].which = 1
    /\ ~Succeeded(calls[Len(calls)].res)
    /\ calls[Len(calls) - 1].which = 2
    /\ Succeeded(calls[Len(calls) - 1].res)

\* C13: when the separator matches but the element parser fails on what
\* follows it, SeparatedList0 and SeparatedList1 succeed with the elements
\* collected so far and the input as it was before that separator.
C13_TrailingSeparatorKept ==
    TrailingSeparator =>
        /\ calls[Len(calls)].on = calls[Len(calls) - 1].res.Remaining
        /\ Got = Success(Value(Collected), calls[Len(calls) - 1].on)

C13_Witness ==
    /\ TrailingSeparator
    /\ parser.kind = "SeparatedList0"
    /\ Len(Collected) = 1
    /\ Len(Got.Remaining) = 2
    /\ Len(calls[Len(calls)].on) = 1

\* C14: in SeparatedList0 and SeparatedList1, whenever an application of the
\* element parser, the first or a later one, succeeds without consuming
\* input, the combinator stops there and fails with the original input.
C14_ElementGuardEveryIteration ==
    parser.kind \in ListKinds =>
        \A i \in 1..Len(calls) :
            calls[i].which = 1 /\ ZeroProgress(calls[i]) =>
                /\ i = Len(calls)
                /\ Returned
                /\ ~Succeeded(Got)
                /\ Got.Remaining = input

\* C15: when the element parser fails on its first application, to the
\* whole input, SeparatedList0 succeeds with an empty list and the whole
\* input, and SeparatedList1 fails with the whole input as remaining.
C15_FirstElementFails ==
    Returned /\ parser.kind \in ListKinds /\ ~Succeeded(calls[1].res) =>
        /\ calls[1].which = 1
        /\ calls[1].on = input
        /\ Len(calls) = 1
        /\ parser.kind = "SeparatedList0" => Got = Success(Value(<<>>), input)
        /\ parser.kind = "SeparatedList1" =>
              ~Succeeded(Got) /\ Got.Remaining = input

C15_Witness ==
    /\ Returned
    /\ parser.kind = "SeparatedList1"
    /\ input = <<>>
    /\ ~Succeeded(calls[1].res)
    /\ ~Succeeded(Got)

\* What the claim says of Map(p, fn)(input), given sub, the Result of p on
\* input, and mapped, what fn makes of its payload.
MapOutcome(sub, mapped) ==
    IF ~Succeeded(sub) \/ mapped.err # Nil
    THEN /\ ~Succeeded(Got)
         /\ Got.Remaining = input
         /\ Got.Err[1].Input = input
    ELSE Got = Success(mapped.out, sub.Remaining)

\* fn rejected the payload of a sub-parse that succeeded.
Rejected(sub) == Succeeded(sub) /\ MapFn(parser.arg[1], sub.Output).err # Nil

\* C16: when p fails, or fn rejects p's payload, Map(p, fn)(s) fails with s
\* both as remaining input and as the input stored in the error; when both
\* succeed it returns fn's output with p's remaining input.
C16_MapAnchoredAtInput ==
    Returned /\ parser.kind = "Map" =>
        MapOutcome(Run(parser.subs[1], input),
                   MapFn(parser.arg[1], Run(parser.subs[1], input).Output))

C16_Witness ==
    /\ Returned
    /\ parser.kind = "Map"
    /\ Rejected(Run(parser.subs[1], input))
    /\ Len(Run(parser.subs[1], input).Remaining) < Len(input)
    /\ Got.Remaining = input

\* C17: when fn rejects the payload of a successful sub-parse, the failure
\* Map returns is a fatal one.
C17_MapRejectionIsFatal ==
    Returned /\ parser.kind = "Map" /\ Rejected(Run(parser.subs[1], input)) =>
        ~Succeeded(Got) /\ IsFatal(Got.Err)

\* The calls made so far are the first parsers of the combinator, in
\* argument order, the first on the input and each later one on the
\* remaining input of the one before, and only the last may have failed.
LeftToRight ==
    \A i \in 1..Len(calls) :
        /\ calls[i].which = i
        /\ calls[i].on = IF i = 1 THEN input ELSE calls[i - 1].res.Remaining
        /\ i < Len(calls) => Succeeded(calls[i].res)

\* The payloads of all the calls made, in order.
Payloads == [i \in 1..Len(calls) |-> calls[i].res.Output]

\* C18: Sequence applies its parsers left to right, each to what the one
\* before left; when all succeed it returns their payloads in order and the
\* last remaining input; when one fails it applies no later parser and
\* fails with the original input and a nil output.
C18_SequenceLeftToRight ==
    parser.kind = "Sequence" =>
        /\ LeftToRight
        /\ Returned =>
              IF Len(calls) > 0 /\ ~Succeeded(calls[Len(calls)].res)
              THEN Got = Failure(calls[Len(calls)].res.Err, input, NilValue)
              ELSE /\ Len(calls) = Len(parser.subs)
                   /\ Got = Success(Value(Payloads),
                                    IF Len(calls) = 0
                                    THEN input
                                    ELSE calls[Len(calls)].res.Remaining)

C18_Witness ==
    /\ Returned
    /\ parser.kind = "Sequence"
    /\ Len(parser.subs) = 3
    /\ Len(calls) = 2
    /\ ~Succeeded(calls[2].res)
    /\ Len(calls[2].on) < Len(input)

\* The three parsers of a Delimited applied one after the other, each to the
\* remaining input of the one before.
AfterPrefix == Run(parser.subs[1], input)

AfterBody == Run(parser.subs[2], AfterPrefix.Remaining)

AfterSuffix == Run(parser.subs[3], AfterBody.Remaining)

\* C19: Delimited succeeds exactly when prefix, body and suffix succeed one
\* after the other; it then returns body's payload and the input left after
\* suffix; when any of the three fails it fails with the original input.
C19_DelimitedOutcome ==
    Returned /\ parser.kind = "Delimited" =>
        IF Succeeded(AfterPrefix) /\ Succeeded(AfterBody) /\ Succeeded(AfterSuffix)
        THEN Got = Success(AfterBody.Output, AfterSuffix.Remaining)
        ELSE ~Succeeded(Got) /\ Got.Remaining = input

C19_Witness ==
    /\ Returned
    /\ parser.kind = "Delimited"
    /\ Succeeded(AfterPrefix)
    /\ Succeeded(AfterBody)
    /\ Len(AfterBody.Remaining) = Len(input) - 2
    /\ ~Succeeded(AfterSuffix)
    /\ ~Succeeded(Got)

\* Each call was made on the remaining input of the one before, the first on
\* the input, and only the last may have failed.
Successive ==
    \A i \in 1..Len(calls) :
        /\ calls[i].which = 1
        /\ calls[i].on = IF i = 1 THEN input ELSE calls[i - 1].res.Remaining
        /\ i < Len(calls) => Succeeded(calls[i].res)

\* C20: Count(p, n)(s) fails with s as remaining input and a nil output
\* when n is 0, when s is empty, or when one of its successive applications
\* of p fails; otherwise it succeeds with the n payloads in order and the
\* input left after the n-th application.
C20_CountOutcome ==
    parser.kind = "Count" =>
        /\ Successive
        /\ Len(calls) <= parser.num[1]
        /\ Returned =>
              IF parser.num[1] = 0 \/ Len(input) = 0
              THEN /\ Len(calls) = 0
                   /\ Got = Failure(NewError(input, <<"Count">>), input, NilValue)
              ELSE IF ~Succeeded(calls[Len(calls)].res)
              THEN Got = Failure(calls[Len(calls)].res.Err, input, NilValue)
              ELSE /\ Len(calls) = parser.num[1]
                   /\ Got = Success(Value(Payloads), calls[Len(calls)].res.Remaining)

C20_Witness ==
    /\ Returned
    /\ parser.kind = "Count"
    /\ parser.num[1] = 2
    /\ Succeeded(Got)
    /\ Len(Got.Output.val) = 2
    /\ Len(input) = 3
    /\ Len(Got.Remaining) = 1

\* What Recognize has to return, given the Result of its parser on the input.
RecognizeOutcome(sub) ==
    IF Succeeded(sub)
    THEN Got = Success(Value(Upto(input, Len(input) - Len(sub.Remaining))),
                       sub.Remaining)
    ELSE ~Succeeded(Got) /\ Got.Remaining = input

\* C21: when p succeeds on s leaving r, Recognize(p)(s) succeeds with the
\* consumed span s[0 : len(s)-len(r)] as payload and r as remaining input;
\* when p fails, Recognize(p)(s) fails with remaining input s.
C21_RecognizeOutcome ==
    Returned /\ parser.kind = "Recognize" =>
        RecognizeOutcome(Run(parser.subs[1], input))

C21_Witness ==
    /\ Returned
    /\ parser.kind = "Recognize"
    /\ Succeeded(Got)
    /\ Len(Got.Output.val) = 2
    /\ Len(Got.Remaining) = 1

\* What Peek has to return, given the Result of its parser on the input.
PeekOutcome(sub) ==
    IF Succeeded(sub)
    THEN Got = Success(sub.Output, input)
    ELSE ~Succeeded(Got) /\ Got.Err = sub.Err /\ Got.Remaining = input

\* C22: Peek(p)(s) never consumes input: when p succeeds the result is a
\* success with p's payload and remaining input s; when p fails the result
\* carries p's error and remaining input s.
C22_PeekNeverConsumes ==
    Returned /\ parser.kind = "Peek" => PeekOutcome(Run(parser.subs[1], input))

C22_Witness ==
    /\ Returned
    /\ parser.kind = "Peek"
    /\ Succeeded(Got)
    /\ Len(Run(parser.subs[1], input).Remaining) < Len(input)
    /\ Got.Remaining = input

\* The length of the longest prefix of the input whose units all satisfy the
\* predicate, capped at atMost.
LongestPrefix(predicate, atMost) ==
    Min({k \in 0..Len(input) :
            k = Len(input) \/ k = atMost \/ ~Predicate(predicate, input[k + 1])})

\* What the claim asks of TakeWhileMN(atLeast, atMost, predicate) when the
\* longest matching prefix has k units.
SpanOutcome(atLeast, k) ==
    IF k >= atLeast
    THEN Got = Success(Value(Upto(input, k)), From(input, k))
    ELSE ~Succeeded(Got) /\ Got.Remaining = input

\* C23: for min <= max, with k the length of the longest prefix of s whose
\* units satisfy pred, capped at max, TakeWhileMN(min, max, pred)(s) succeeds
\* with payload s[0:k] and remaining input s[k:] when k >= min, and fails
\* with remaining input s when k < min.
C23_TakeWhileMNOutcome ==
    Returned /\ parser.kind = "TakeWhileMN" /\ parser.num[1] <= parser.num[2] =>
        SpanOutcome(parser.num[1], LongestPrefix(parser.arg[1], parser.num[2]))

\* The same statement on inputs that are not empty.
C23_NonEmptyOutcome ==
    Len(input) > 0 => C23_TakeWhileMNOutcome

\* The atMost a caller passes to leave the span unbounded: the largest
\* unsigned value, which no index into an input ever equals.
Unbounded == 2147483647

\* The predicate of each character class parser, and its minimum.
ClassPredicate ==
    [Alpha0 |-> "IsAlpha", Alpha1 |-> "IsAlpha",
     Digit0 |-> "IsDigit", Digit1 |-> "IsDigit",
     Alphanumeric0 |-> "IsAlphanumeric", Alphanumeric1 |-> "IsAlphanumeric",
     HexDigit0 |-> "IsHexDigit", HexDigit1 |-> "IsHexDigit",
     Whitespace0 |-> "IsWhitespace", Whitespace1 |-> "IsWhitespace"]

ClassMinimum ==
    [Alpha0 |-> 0, Alpha1 |-> 1, Digit0 |-> 0, Digit1 |-> 1,
     Alphanumeric0 |-> 0, Alphanumeric1 |-> 1, HexDigit0 |-> 0, HexDigit1 |-> 1,
     Whitespace0 |-> 0, Whitespace1 |-> 1]

\* Two Results agree on success or failure, payload and remaining input.
SameOutcome(a, b) ==
    /\ Succeeded(a) <=> Succeeded(b)
    /\ a.Output = b.Output
    /\ a.Remaining = b.Remaining

\* C24: for each character class C among Alpha, Digit, Alphanumeric, HexDigit
\* and Whitespace and every input s, C0()(s) has the outcome of
\* TakeWhileMN(0, unbounded, isC)(s) and C1()(s) that of
\* TakeWhileMN(1, unbounded, isC)(s).
C24_ClassIsTakeWhileMN ==
    Returned /\ parser.kind \in DOMAIN ClassPredicate =>
        SameOutcome(Got, TakeWhileMN(ClassMinimum[parser.kind], Unbounded,
                                     ClassPredicate[parser.kind], input))

\* The same statement on inputs that are not empty, and for the one-or-more
\* parsers on every input.
C24_NonEmptyEquivalence ==
    \/ Len(input) > 0
    \/ (parser.kind \in DOMAIN ClassMinimum /\ ClassMinimum[parser.kind] = 1)
    => C24_ClassIsTakeWhileMN

\* The value v fits the numeric type of the parser.  No run of MaxDigits
\* digits reaches the limits of a 64-bit integer.
Fits(v) ==
    CASE parser.kind = "Int8" -> v >= 0 - 128 /\ v <= 127
      [] parser.kind = "UInt8" -> v >= 0 /\ v <= 255
      [] parser.kind = "Int64" -> TRUE

\* What the claim asks of an integer parser whose input has a minus sign iff
\* neg and whose digit run ends at index end.
NumberOutcome(neg, start, end) ==
    LET v == (IF neg THEN 0 - 1 ELSE 1) * Decimal(SubSeq(input, start + 1, end))
    IN  IF end > start /\ Fits(v)
        THEN Got = Success(Value(<<v>>), From(input, end))
        ELSE ~Succeeded(Got) /\ Got.Remaining = input

\* The input starts with the minus sign a signed parser accepts.
Negative ==
    parser.kind \in {"Int64", "Int8"} /\ Len(input) > 0 /\ input[1] = "-"

StartsWith(t) ==
    Len(t) <= Len(input) /\ \A i \in 1..Len(t) : input[i] = t[i]

\* Token succeeded with the first len(t) units as payload and the rest of
\* the input as remaining input.
TokenMatched(t) ==
    Got = Success(Value(Upto(input, Len(t))), From(input, Len(t)))

TokenFailed == ~Succeeded(Got) /\ Got.Remaining = input

\* C26, as stated: Token(t)(s) succeeds exactly when s starts with t, with
\* payload the first len(t) units of s and the rest of s remaining; on empty
\* input, or when t is not a prefix of s, it fails with remaining input s.
C26_TokenFailsOnEmptyInput ==
    Returned /\ parser.kind = "Token" =>
        /\ Succeeded(Got) <=> StartsWith(parser.arg)
        /\ Succeeded(Got) => TokenMatched(parser.arg)
        /\ Len(input) = 0 \/ ~StartsWith(parser.arg) => TokenFailed

\* C26, amended: Token(t)(s) succeeds exactly when s starts with t, with
\* payload the first len(t) units of s and the rest of s remaining, and fails
\* with remaining input s otherwise; the empty input is refused by every
\* token but the empty one.
C26_TokenOutcome ==
    Returned /\ parser.kind = "Token" =>
        IF StartsWith(parser.arg)
        THEN TokenMatched(parser.arg)
        ELSE TokenFailed

C26_Witness ==
    /\ Returned
    /\ parser.kind = "Token"
    /\ Len(parser.arg) = 2
    /\ Succeeded(Got)
    /\ Len(Got.Remaining) = 1

RECURSIVE FirstFailure(_, _, _)
\* The Result of the first of the parsers subs[i..] to fail when each is
\* applied to what the one before left of in, as a one-element sequence;
\* empty when all succeed.
FirstFailure(subs, i, in) ==
    IF i > Len(subs)
    THEN <<>>
    ELSE IF ~Succeeded(Run(subs[i], in))
    THEN <<Run(subs[i], in)>>
    ELSE FirstFailure(subs, i + 1, Run(subs[i], in).Remaining)

\* Combinators that apply their parsers once each, in argument order.
ChainKinds ==
    {"Map", "Pair", "SeparatedPair", "Preceded", "Terminated", "Delimited",
     "Peek", "Recognize", "Assign"}

\* The sub-parser failure that made the combinator fail, as a one-element
\* sequence; empty when it did not fail or failed for another reason.
Culprit ==
    IF ~Returned \/ Succeeded(Got)
    THEN <<>>
    ELSE IF parser.kind \in ChainKinds
    THEN FirstFailure(parser.subs, 1, input)
    ELSE IF /\ parser.kind \in {"Sequence", "Count", "Many1"}
            /\ Len(calls) > 0
            /\ ~Succeeded(calls[Len(calls)].res)
    THEN <<calls[Len(calls)].res>>
    ELSE <<>>

FatalCulprit == Culprit # <<>> /\ IsFatal(Culprit[1].Err)

\* C27: whenever the sub-parser failure that makes Map, Pair, SeparatedPair,
\* Preceded, Terminated, Delimited, Sequence, Count, Many1, Peek, Recognize
\* or Assign fail is fatal, the failure the combinator returns is fatal.
C27_FatalityPreserved == FatalCulprit => IsFatal(Got.Err)

\* Fatality is preserved by the combinators that hand on the error of their
\* sub-parser.
C27_PassThroughPreserves ==
    FatalCulprit /\ parser.kind \notin {"Map", "Pair", "SeparatedPair"} =>
        IsFatal(Got.Err)

RECURSIVE FirstFailedCall(_, _, _)
\* The first of the applications of subs[i..], each to what the one before
\* left of in, that fails, as a one-element sequence; empty when none does.
FirstFailedCall(subs, i, in) ==
    IF i > Len(subs)
    THEN <<>>
    ELSE IF ~Succeeded(Run(subs[i], in))
    THEN <<Call(i, in, Run(subs[i], in))>>
    ELSE FirstFailedCall(subs, i + 1, Run(subs[i], in).Remaining)

\* The sub-parser application that made Sequence, Preceded, Terminated or
\* Delimited fail.
FailedStep ==
    IF Returned /\ parser.kind \in {"Sequence", "Preceded", "Terminated", "Delimited"}
    THEN FirstFailedCall(parser.subs, 1, input)
    ELSE <<>>

C29_PlainRepetitionsTerminate ==
    [][parser.kind \in {"Many", "DiscardAll"} =>
          \/ pc' = "done"
          \/ pc' = "loop" /\ Len(remaining') < Len(remaining)]_vars

\* C29, seen in the states: Many and DiscardAll never apply their parser
\* more often than a loop that consumes input at each iteration can.
C29_RoundsBounded ==
    parser.kind \in {"Many", "DiscardAll"} => Len(calls) <= Len(input) + 1

\* Every alternative fails on the input without a fatal error, and all the
\* errors store an input of the same length.
AllFailTogether ==
    /\ Returned
    /\ parser.kind \in {"Alternative", "LegacyAlternative"}
    /\ Len(parser.subs) > 0
    /\ \A i \in 1..Len(parser.subs) :
           /\ ~Succeeded(Run(parser.subs[i], input))
           /\ ~IsFatal(Run(parser.subs[i], input).Err)
           /\ Len(Run(parser.subs[i], input).Err[1].Input)
                  = Len(Run(parser.subs[1], input).Err[1].Input)

RECURSIVE ExpectedFrom(_)
\* The expected descriptors of the errors of the alternatives from the i-th
\* on, in trial order.
ExpectedFrom(i) ==
    IF i > Len(parser.subs)
    THEN <<>>
    ELSE Run(parser.subs[i], input).Err[1].Expected \o ExpectedFrom(i + 1)

\* C30: when all alternatives of Alternative fail recoverably at the same
\* input position, the error it reports lists the expected descriptors of
\* every tried alternative, in trial order.
C30_AlternativeMergesExpected ==
    AllFailTogether => ~Succeeded(Got) /\ Got.Err[1].Expected = ExpectedFrom(1)

\* The same statement about the Alternative of the earlier revision alone.
C30_LegacyAlternativeMerges ==
    parser.kind = "LegacyAlternative" => C30_AlternativeMergesExpected

====
